---------------------------- MODULE Spec2Model ----------------------------
(***************************************************************************)
(* Model of the Fastino RTIO driver (artiq/coredevice/fastino.py).         *)
(*                                                                         *)
(* The driver keeps no mutable state of its own: channel, width and        *)
(* t_frame are fixed by __init__.  What changes is the timeline cursor     *)
(* (now) and the sequence of RTIO outputs the driver has issued (writes).  *)
(* Every kernel method is one action; a method that raises leaves a record *)
(* of the exception in last.err.                                           *)
(*                                                                         *)
(* int32 values are TLA+ integers in -2^31 .. 2^31-1; arithmetic that can  *)
(* leave that range is done on 16-bit halves so that it wraps as the code  *)
(* does.  A voltage (a float in the code) is the record [q, h] standing    *)
(* for (q * 655360 + h) / 32768 volts, h in 0..655359: the grid of tenths  *)
(* of an LSB, on which (0x8000/10.)*voltage is q * 65536 + h / 10.         *)
(***************************************************************************)
EXTENDS Integers, Sequences, FiniteSets, TLC

VARIABLES channel, width, build, now, writes, last, budget

vars == <<channel, width, build, now, writes, last, budget>>

----------------------------------------------------------------------------
(* Bounds of the model *)

\* number of driver calls in one behaviour of Spec
MaxCalls == 2
\* longest voltage list handed to set_group
MaxVolts == 3

----------------------------------------------------------------------------
(* 32-bit integer arithmetic *)

Two16 == 65536

Int32Min == -2147483647 - 1

Int32Max == 2147483647

Hi16(x) == (x \div Two16) % Two16

Lo16(x) == x % Two16

\* the int32 whose upper and lower unsigned halves are hi and lo
FromHalves(hi, lo) == (IF hi >= 32768 THEN hi - Two16 ELSE hi) * Two16 + lo

RECURSIVE Or16(_, _)
Or16(a, b) ==
    IF a = 0 THEN b
    ELSE IF b = 0 THEN a
    ELSE (IF a % 2 = 1 \/ b % 2 = 1 THEN 1 ELSE 0) + 2 * Or16(a \div 2, b \div 2)

RECURSIVE And16(_, _)
And16(a, b) ==
    IF a = 0 \/ b = 0 THEN 0
    ELSE (IF a % 2 = 1 /\ b % 2 = 1 THEN 1 ELSE 0) + 2 * And16(a \div 2, b \div 2)

\* a | b on int32
Or32(a, b) == FromHalves(Or16(Hi16(a), Hi16(b)), Or16(Lo16(a), Lo16(b)))

\* a & b on int32
And32(a, b) == FromHalves(And16(Hi16(a), Hi16(b)), And16(Lo16(a), Lo16(b)))

\* a + b on int32, wrapping
Add32(a, b) ==
    LET lo == Lo16(a) + Lo16(b)
        hi == Hi16(a) + Hi16(b) + lo \div Two16
    IN  FromHalves(hi % Two16, lo % Two16)

\* x << n on int32, wrapping
RECURSIVE Shl32(_, _)
Shl32(x, n) ==
    IF n = 0 THEN x
    ELSE Shl32(FromHalves((Hi16(x) * 2 + Lo16(x) \div 32768) % Two16,
                          (Lo16(x) * 2) % Two16), n - 1)

\* int32(b) of a bool
BoolInt(b) == IF b THEN 1 ELSE 0

----------------------------------------------------------------------------
(* Results of a method: the exception it raised ("none" when it returned), *)
(* its return value and the RTIO outputs it issued, in order.              *)

NoErr == "none"

Ok(ret, out) == [err |-> NoErr, ret |-> ret, out |-> out]

Raise(e, out) == [err |-> e, ret |-> 0, out |-> out]

\* rtio_output(target, data): one 32-bit word
Narrow(addr, data) == [kind |-> "rtio_output", addr |-> addr, data |-> <<data>>]

\* rtio_output_wide(target, data): the list of words as handed over
Wide(addr, data) == [kind |-> "rtio_output_wide", addr |-> addr, data |-> data]

----------------------------------------------------------------------------
(* Construction *)

\* self.t_frame = int64(14*7*4)
t_frame == 14 * 7 * 4

\* self.channel = channel << 8
ChannelBase(ch) == Shl32(ch, 8)

\* self.width = 1 << log2_width
WidthOf(log2_width) == 2 ^ log2_width

\* The builds the code runs as.  round() of a float is round-half-even on the
\* host and round-half-away-from-zero in a kernel; int32() of a value outside
\* int32 wraps, saturates or raises OverflowError depending on the build.
Builds ==
    { [round |-> "away", conv |-> "wrap"], [round |-> "away", conv |-> "sat"],
      [round |-> "even", conv |-> "wrap"], [round |-> "even", conv |-> "raise"] }

----------------------------------------------------------------------------
(* write / read *)

\* write with the arguments of rtio_output exchanged
write_ArgumentsSwapped(addr, data) == Ok(0, <<Narrow(Or32(channel, data), addr)>>)

write(addr, data) == Ok(0, <<Narrow(Or32(channel, addr), data)>>)

read(addr) == Raise("NotImplementedError", <<>>)

set_dac_mu(dac, data) == write(dac, data)

\* set_group_mu issuing the wide output before it checks the alignment
set_group_mu_WriteFirst(dac, data) ==
    IF And32(dac, width - 1) # 0
    THEN Raise("ValueError: Group index LSBs must be zero",
               <<Wide(Or32(channel, dac), data)>>)
    ELSE Ok(0, <<Wide(Or32(channel, dac), data)>>)

set_group_mu(dac, data) ==
    IF And32(dac, width - 1) # 0
    THEN Raise("ValueError: Group index LSBs must be zero", <<>>)
    ELSE Ok(0, <<Wide(Or32(channel, dac), data)>>)

----------------------------------------------------------------------------
(* Voltage codec *)

\* a voltage of the grid: (q * 655360 + h) / 32768 volts
Volt(q, h) == [q |-> q, h |-> h]

\* round((float(0x8000)/10.)*voltage), as the pair of its upper part (an
\* integer) and its lower 16 bits: the value is hi * 65536 + lo
Round(voltage) ==
    LET base == voltage.h \div 10
        rem  == voltage.h % 10
        up   == IF rem < 5 THEN FALSE
                ELSE IF rem > 5 THEN TRUE
                ELSE IF build.round = "even" THEN base % 2 = 1
                ELSE voltage.q >= 0
        r    == base + BoolInt(up)
    IN  [hi |-> voltage.q + r \div Two16, lo |-> r % Two16]

\* int32(x) of the rounded value x
Int32Of(x) ==
    IF x.hi >= -32768 /\ x.hi <= 32767
    THEN Ok(x.hi * Two16 + x.lo, <<>>)
    ELSE IF build.conv = "wrap" THEN Ok(FromHalves(x.hi % Two16, x.lo), <<>>)
    ELSE IF build.conv = "sat" THEN Ok(IF x.hi < 0 THEN Int32Min ELSE Int32Max, <<>>)
    ELSE Raise("OverflowError", <<>>)

\* voltage_to_mu with the upper bound checked as data > 0x10000
voltage_to_mu_BoundOffByOne(voltage) ==
    LET r == Int32Of(Round(voltage))
    IN  IF r.err # NoErr THEN r
        ELSE LET data == Add32(r.ret, 32768)
             IN  IF data < 0 \/ data > 65536
                 THEN Raise("ValueError: DAC voltage out of bounds", <<>>)
                 ELSE Ok(data, <<>>)

voltage_to_mu(voltage) ==
    LET r == Int32Of(Round(voltage))
    IN  IF r.err # NoErr THEN r
        ELSE LET data == Add32(r.ret, 32768)
             IN  IF data < 0 \/ data > 65535
                 THEN Raise("ValueError: DAC voltage out of bounds", <<>>)
                 ELSE Ok(data, <<>>)

\* the body of the loop of voltage_group_to_mu from index i (counted from 1)
\* on; ret is the list data as the loop leaves it
RECURSIVE GroupLoop(_, _, _)
GroupLoop(voltage, data, i) ==
    IF i > Len(voltage) THEN Ok(data, <<>>)
    ELSE LET r    == voltage_to_mu(voltage[i])
             slot == (i - 1) \div 2 + 1
         IN  IF r.err # NoErr THEN r
             ELSE IF slot > Len(data) THEN Raise("IndexError", <<>>)
             ELSE LET v == IF And32(i - 1, 1) # 0
                           THEN Or32(data[slot], Shl32(r.ret, 16))
                           ELSE r.ret
                  IN  GroupLoop(voltage, [data EXCEPT ![slot] = v], i + 1)

voltage_group_to_mu(voltage, data) == GroupLoop(voltage, data, 1)

set_dac(dac, voltage) ==
    LET r == voltage_to_mu(voltage)
    IN  IF r.err # NoErr THEN r ELSE write(dac, r.ret)

set_group(dac, voltage) ==
    LET data == [i \in 1..(Len(voltage) \div 2) |-> 0]
        g    == voltage_group_to_mu(voltage, data)
    IN  IF g.err # NoErr THEN Raise(g.err, <<>>) ELSE set_group_mu(dac, g.ret)

----------------------------------------------------------------------------
(* Register writes *)

update(mask) == write(32, mask)

set_hold(hold) == write(33, hold)

set_cfg(reset, afe_power_down, dac_clr, clr_err) ==
    write(34, Or32(Or32(Shl32(BoolInt(reset), 0), Shl32(BoolInt(afe_power_down), 1)),
                   Or32(Shl32(BoolInt(dac_clr), 2), Shl32(BoolInt(clr_err), 3))))

set_leds(leds) == write(35, leds)

set_continuous(channel_mask) == write(37, channel_mask)

apply_cic(channel_mask) == write(39, channel_mask)

----------------------------------------------------------------------------
(* CIC interpolator configuration *)

stage_cic_mu(rate_mantissa, rate_exponent, gain_exponent) ==
    IF rate_mantissa < 0 \/ rate_mantissa >= 64
    THEN Raise("ValueError: rate_mantissa out of bounds", <<>>)
    ELSE IF rate_exponent < 0 \/ rate_exponent >= 16
    THEN Raise("ValueError: rate_exponent out of bounds", <<>>)
    ELSE IF gain_exponent < 0 \/ gain_exponent >= 64
    THEN Raise("ValueError: gain_exponent out of bounds", <<>>)
    ELSE write(38, Or32(Or32(rate_mantissa, Shl32(rate_exponent, 6)),
                        Shl32(gain_exponent, 10)))

\* while rate_mantissa > 1 << 6: rate_exponent += 1; rate_mantissa >>= 1
RECURSIVE RateFloat(_, _)
RateFloat(rate_mantissa, rate_exponent) ==
    IF rate_mantissa > 64
    THEN RateFloat(rate_mantissa \div 2, rate_exponent + 1)
    ELSE [mantissa |-> rate_mantissa, exponent |-> rate_exponent]

\* Gain with the product started at rate_mantissa instead of 1
RECURSIVE GainStartedAtMantissa(_, _)
GainStartedAtMantissa(rate_mantissa, order) ==
    IF order = 0 THEN rate_mantissa
    ELSE GainStartedAtMantissa(rate_mantissa, order - 1) * rate_mantissa

\* gain = 1; for i in range(order): gain *= rate_mantissa
RECURSIVE Gain(_, _)
Gain(rate_mantissa, order) ==
    IF order = 0 THEN 1 ELSE Gain(rate_mantissa, order - 1) * rate_mantissa

\* GainExponent with the loop condition gain >= 1 << gain_exponent
RECURSIVE GainExponentInclusive(_, _)
GainExponentInclusive(gain, gain_exponent) ==
    IF gain >= 2 ^ gain_exponent
    THEN GainExponentInclusive(gain, gain_exponent + 1)
    ELSE gain_exponent

\* while gain > 1 << gain_exponent: gain_exponent += 1
RECURSIVE GainExponent(_, _)
GainExponent(gain, gain_exponent) ==
    IF gain > 2 ^ gain_exponent
    THEN GainExponent(gain, gain_exponent + 1)
    ELSE gain_exponent

\* stage_cic handing rate_mantissa, not rate_mantissa - 1, to stage_cic_mu
stage_cic_MantissaNotBiased(rate) ==
    IF rate <= 0 \/ rate > 65536
    THEN Raise("ValueError: rate out of bounds", <<>>)
    ELSE LET f     == RateFloat(rate, 0)
             order == 3
             gain_exponent ==
                 GainExponent(Gain(f.mantissa, order), 0) + order * f.exponent
         IN  IF ~(gain_exponent <= order * 16)
             THEN Raise("AssertionError", <<>>)
             ELSE LET r == stage_cic_mu(f.mantissa, f.exponent, gain_exponent)
                  IN  IF r.err # NoErr THEN r
                      ELSE Ok(f.mantissa * 2 ^ f.exponent, r.out)

stage_cic(rate) ==
    IF rate <= 0 \/ rate > 65536
    THEN Raise("ValueError: rate out of bounds", <<>>)
    ELSE LET f     == RateFloat(rate, 0)
             order == 3
             gain_exponent ==
                 GainExponent(Gain(f.mantissa, order), 0) + order * f.exponent
         IN  IF ~(gain_exponent <= order * 16)
             THEN Raise("AssertionError", <<>>)
             ELSE LET r == stage_cic_mu(f.mantissa - 1, f.exponent, gain_exponent)
                  IN  IF r.err # NoErr THEN r
                      ELSE Ok(f.mantissa * 2 ^ f.exponent, r.out)

----------------------------------------------------------------------------
(* init *)

\* the outputs out, issued with the timeline cursor at t
At(out, t) ==
    [i \in 1..Len(out) |->
        [kind |-> out[i].kind, addr |-> out[i].addr, data |-> out[i].data, t |-> t]]

\* the calls init makes, in order; delay_mu(self.t_frame) follows each
InitCalls ==
    << set_cfg(FALSE, FALSE, FALSE, TRUE),
       set_cfg(FALSE, FALSE, FALSE, FALSE),
       set_continuous(0),
       stage_cic(1),
       apply_cic(-1),
       set_leds(0),
       set_hold(0) >>

\* InitFrom with the delay_mu after stage_cic(1) left out
RECURSIVE InitFromNoDelayAfterStage(_, _, _)
InitFromNoDelayAfterStage(i, t, out) ==
    IF i > Len(InitCalls) THEN Ok(t, out)
    ELSE LET r == InitCalls[i]
         IN  IF r.err # NoErr THEN [err |-> r.err, ret |-> t, out |-> out \o At(r.out, t)]
             ELSE InitFromNoDelayAfterStage(i + 1, IF i = 4 THEN t ELSE t + t_frame,
                                            out \o At(r.out, t))

\* init from its i-th call on, the cursor at t, out the outputs issued so far;
\* ret is the cursor as init leaves it
RECURSIVE InitFrom(_, _, _)
InitFrom(i, t, out) ==
    IF i > Len(InitCalls) THEN Ok(t, out)
    ELSE LET r == InitCalls[i]
         IN  IF r.err # NoErr THEN [err |-> r.err, ret |-> t, out |-> out \o At(r.out, t)]
             ELSE InitFrom(i + 1, t + t_frame, out \o At(r.out, t))

init == InitFrom(1, now, <<>>)

----------------------------------------------------------------------------
(* Arguments of the calls *)

\* log2_width of the constructor
Log2Widths == 0..5

\* RTIO channel numbers of the constructor
RtioChannels == {3}

\* DAC channel arguments: channels, and int32 values that are none
Dacs == {0, 31, 34, 256, -4}

\* every DAC channel, and some int32 values that are none
AllDacs == 0..31 \cup {32, 34, 64, 256, -1, -32}

V_0 == Volt(0, 0)

V_1 == Volt(0, 32768)

V_Neg1 == Volt(-1, 622592)

V_Half == Volt(0, 16384)

V_10 == Volt(0, 327680)

V_Neg10 == Volt(-1, 327680)

\* 10 V less one LSB, the largest voltage with a code
V_Top == Volt(0, 327670)

\* -10 V less one LSB
V_Below == Volt(-1, 327670)

\* 1310710 V: (0x8000/10.)*voltage is 2^32 - 32768
V_Wrap == Volt(65535, 327680)

\* voltages of the codec's specification: the documented points, the ties of
\* round(), the edges of the range and of int32
Voltages ==
    { V_0, V_1, V_Neg1, V_Half, V_10, V_Neg10, V_Top, V_Below, V_Wrap,
      Volt(0, 5), Volt(0, 15), Volt(0, 25), Volt(-1, 655355), Volt(-1, 655345),
      Volt(0, 327665), Volt(0, 327675), Volt(-1, 327675), Volt(-1, 327685),
      Volt(32767, 655350), Volt(32768, 0), Volt(65536, 0), Volt(65536, 327680),
      Volt(-32768, 0), Volt(-32769, 655350), Volt(-65536, 0), Volt(-65537, 327680),
      Volt(131071, 327680) }

\* the lists over S of length at most n
RECURSIVE ListsUpTo(_, _)
ListsUpTo(S, n) ==
    IF n = 0 THEN {<<>>}
    ELSE LET shorter == ListsUpTo(S, n - 1)
         IN  shorter \cup {Append(l, x) : l \in {k \in shorter : Len(k) = n - 1}, x \in S}

\* rates handed to stage_cic
Rates == -1..65537

----------------------------------------------------------------------------
(* Actions: one per call of a method *)

Do(op, args, r) ==
    /\ budget' = budget - 1
    /\ writes' = writes \o At(r.out, now)
    /\ last' = [op |-> op, args |-> args, err |-> r.err, ret |-> r.ret,
                base |-> Len(writes)]
    /\ UNCHANGED <<channel, width, build, now>>

\* the state __init__ leaves, with n calls to come
Constructed(L, B, n) ==
    /\ channel \in {ChannelBase(ch) : ch \in RtioChannels}
    /\ width \in {WidthOf(l) : l \in L}
    /\ build \in B
    /\ now = 0
    /\ writes = <<>>
    /\ last = [op |-> "__init__", args |-> <<>>, err |-> NoErr, ret |-> 0, base |-> 0]
    /\ budget = n

Init == Constructed({0, 2}, Builds, MaxCalls)

InitDevice ==
    /\ budget > 0
    /\ budget' = budget - 1
    /\ writes' = writes \o init.out
    /\ now' = init.ret
    /\ last' = [op |-> "init", args |-> <<>>, err |-> init.err, ret |-> 0,
                base |-> Len(writes)]
    /\ UNCHANGED <<channel, width, build>>

\* delay_mu(self.t_frame) of the caller between two calls
DelayMu ==
    /\ budget > 0
    /\ budget' = budget - 1
    /\ now' = now + t_frame
    /\ last' = [op |-> "delay_mu", args |-> <<t_frame>>, err |-> NoErr, ret |-> 0,
                base |-> Len(writes)]
    /\ UNCHANGED <<channel, width, build, writes>>

Write ==
    /\ budget > 0
    /\ \E addr \in {34}, data \in {1} :
       Do("write", <<addr, data>>, write(addr, data))

Read ==
    /\ budget > 0
    /\ \E addr \in {0} : Do("read", <<addr>>, read(addr))

SetDacMu(D) ==
    /\ budget > 0
    /\ \E dac \in D, data \in {65535} :
       Do("set_dac_mu", <<dac, data>>, set_dac_mu(dac, data))

SetGroupMu(D, L) ==
    /\ budget > 0
    /\ \E dac \in D, data \in L :
       Do("set_group_mu", <<dac, data>>, set_group_mu(dac, data))

VoltageToMu(V) ==
    /\ budget > 0
    /\ \E voltage \in V :
       Do("voltage_to_mu", <<voltage>>, voltage_to_mu(voltage))

SetDac(D, V) ==
    /\ budget > 0
    /\ \E dac \in D, voltage \in V :
       Do("set_dac", <<dac, voltage>>, set_dac(dac, voltage))

SetGroup(D, V) ==
    /\ budget > 0
    /\ \E dac \in D, voltage \in V :
       Do("set_group", <<dac, voltage>>, set_group(dac, voltage))

Update ==
    /\ budget > 0
    /\ \E mask \in {1} : Do("update", <<mask>>, update(mask))

SetHold ==
    /\ budget > 0
    /\ \E hold \in {-1} : Do("set_hold", <<hold>>, set_hold(hold))

SetCfg ==
    /\ budget > 0
    /\ \E reset \in {FALSE}, afe_power_down \in {FALSE},
          dac_clr \in BOOLEAN, clr_err \in {FALSE} :
       Do("set_cfg", <<reset, afe_power_down, dac_clr, clr_err>>,
          set_cfg(reset, afe_power_down, dac_clr, clr_err))

SetLeds ==
    /\ budget > 0
    /\ \E leds \in {255} : Do("set_leds", <<leds>>, set_leds(leds))

SetContinuous ==
    /\ budget > 0
    /\ \E channel_mask \in {1} :
       Do("set_continuous", <<channel_mask>>, set_continuous(channel_mask))

StageCicMu ==
    /\ budget > 0
    /\ \E a \in {<<63, 15, 63>>, <<64, 0, 0>>, <<0, 16, 0>>, <<0, 0, -1>>} :
       Do("stage_cic_mu", a, stage_cic_mu(a[1], a[2], a[3]))

StageCic(R) ==
    /\ budget > 0
    /\ \E rate \in R : Do("stage_cic", <<rate>>, stage_cic(rate))

ApplyCic ==
    /\ budget > 0
    /\ \E channel_mask \in {-1} :
       Do("apply_cic", <<channel_mask>>, apply_cic(channel_mask))

\* the driver, called MaxCalls times with arguments of all kinds
Next ==
    \/ InitDevice
    \/ DelayMu
    \/ Write
    \/ Read
    \/ SetDacMu(Dacs)
    \/ SetGroupMu({0, 2, 32}, {<<0>>})
    \/ SetDac({1, 34}, {V_1, V_10, V_Wrap})
    \/ SetGroup({0, 2}, {<<V_1>>, <<V_1, V_Neg1>>, <<V_1, V_10>>})
    \/ Update
    \/ SetHold
    \/ SetCfg
    \/ SetLeds
    \/ SetContinuous
    \/ StageCicMu
    \/ StageCic({0, 100, 65537})
    \/ ApplyCic

Spec == Init /\ [][Next]_vars

\* one call of a method, the arguments drawn from a set that covers the
\* method's cases
InitOne == Constructed(Log2Widths, Builds, 1)

\* stage_cic on every rate
NextCic == StageCic(Rates)

\* stage_cic reads neither width nor the build
InitCic == Constructed({0}, {[round |-> "away", conv |-> "wrap"]}, 1)

SpecCic == InitCic /\ [][NextCic]_vars

\* voltage_to_mu on the voltages of the codec
NextVolt == VoltageToMu(Voltages)

SpecVolt == InitOne /\ [][NextVolt]_vars

\* the group writes on every first channel
NextGroup ==
    \/ SetGroupMu(AllDacs, {<<>>, <<0>>, <<-1, 65536>>})
    \/ SetGroup(AllDacs, ListsUpTo({V_1, V_Neg1, V_Half, V_10}, MaxVolts))

SpecGroup == InitOne /\ [][NextGroup]_vars

----------------------------------------------------------------------------
(* Properties of stage_cic, under SpecCic *)

\* the RTIO outputs the last call issued
CallWrites == SubSeq(writes, last.base + 1, Len(writes))

\* the fields of the configuration word the last call staged
StagedWord == CallWrites[1].data[1]

StagedMantissa == StagedWord % 64

StagedExponent == (StagedWord \div 64) % 16

StagedGainExponent == StagedWord \div 1024

\* the last call staged one configuration word at offset 0x26
StagedOne ==
    /\ Len(CallWrites) = 1
    /\ CallWrites[1].kind = "rtio_output"
    /\ CallWrites[1].addr = channel + 38

IsPow2(n) == \E k \in 0..16 : n = 2 ^ k

\* C1: for every rate in [1, 65536] stage_cic returns (no assertion, no
\* range check of stage_cic_mu fires) an achieved rate with
\* rate/2 < achieved <= rate, and stages a gain_exponent <= 48.
C1_StageCicTotal ==
    (last.op = "stage_cic" /\ last.args[1] \in 1..65536) =>
        /\ last.err = NoErr
        /\ last.ret <= last.args[1]
        /\ 2 * last.ret > last.args[1]
        /\ StagedOne
        /\ StagedGainExponent <= 48

\* rate 65535 is staged as 63 << 10 with gain_exponent 48
C1_Witness ==
    /\ last.op = "stage_cic"
    /\ last.args[1] = 65535
    /\ last.err = NoErr
    /\ last.ret = 64512
    /\ StagedGainExponent = 48

\* C2: for every k in 0..16 stage_cic(2^k) returns 2^k and stages a
\* configuration that decodes to 2^k with gain_exponent 3k; stage_cic(1)
\* writes the word 0 to offset 0x26.
C2_PowersOfTwo ==
    \A k \in 0..16 :
        (last.op = "stage_cic" /\ last.args[1] = 2 ^ k) =>
            /\ last.err = NoErr
            /\ last.ret = 2 ^ k
            /\ StagedOne
            /\ (StagedMantissa + 1) * 2 ^ StagedExponent = 2 ^ k
            /\ StagedGainExponent = 3 * k
            /\ (k = 0 => CallWrites = <<[kind |-> "rtio_output", addr |-> channel + 38,
                                        data |-> <<0>>, t |-> now]>>)

\* rate 4096 is staged as 64 << 6 with gain_exponent 36
C2_Witness ==
    /\ last.op = "stage_cic"
    /\ last.args[1] = 4096
    /\ last.ret = 4096
    /\ StagedMantissa = 63
    /\ StagedExponent = 6
    /\ StagedGainExponent = 36

\* C9: for every rate in [1, 65536] the gain after compensation,
\* achieved^3 / 2^gain_exponent, is in (1/2, 1], and is 1 exactly when the
\* achieved rate is a power of two.  With achieved = m * 2^e (m the staged
\* mantissa plus one, e the staged exponent) and g = gain_exponent - 3e the
\* gain is m^3 / 2^g, which is how it is stated here (achieved^3 reaches 2^48).
C9_GainInHalfOpenUnit ==
    (last.op = "stage_cic" /\ last.args[1] \in 1..65536) =>
        /\ last.err = NoErr
        /\ StagedOne
        /\ LET m == StagedMantissa + 1
               e == StagedExponent
               g == StagedGainExponent - 3 * e
           IN  /\ last.ret = m * 2 ^ e
               /\ g >= 0
               /\ 2 ^ g >= m * m * m
               /\ 2 ^ g < 2 * m * m * m
               /\ (2 ^ g = m * m * m) <=> IsPow2(last.ret)

\* rate 100 is staged as 50 << 1 with gain_exponent 20: gain 10^6 / 2^20
C9_Witness ==
    /\ last.op = "stage_cic"
    /\ last.args[1] = 100
    /\ last.ret = 100
    /\ StagedMantissa = 49
    /\ StagedExponent = 1
    /\ StagedGainExponent = 20

----------------------------------------------------------------------------
(* Properties of voltage_to_mu, under SpecVolt *)

RangeErr == "ValueError: DAC voltage out of bounds"

\* round(3276.8 * voltage) + 32768 without any conversion to int32, as the
\* pair hi * 65536 + lo; it is in [0, 65535] exactly when hi = 0
ExactMu(voltage) ==
    LET x == Round(voltage)
        s == x.lo + 32768
    IN  [hi |-> x.hi + s \div Two16, lo |-> s % Two16]

\* C4 as stated: 0 V, -10 V and 10 V all return, as 0x8000, 0x0000, 0xFFFF.
C4_BoundaryCodes ==
    last.op = "voltage_to_mu" =>
        /\ (last.args[1] = V_0 => last.err = NoErr /\ last.ret = 32768)
        /\ (last.args[1] = V_Neg10 => last.err = NoErr /\ last.ret = 0)
        /\ (last.args[1] = V_10 => last.err = NoErr /\ last.ret = 65535)

\* C4 amended: 0 V returns 0x8000 and -10 V returns 0x0000; 10 V gives
\* 0x10000 and fails with the range error; 0xFFFF is the code of 10 V less
\* one LSB.
C4_BoundaryCodesAmended ==
    last.op = "voltage_to_mu" =>
        /\ (last.args[1] = V_0 => last.err = NoErr /\ last.ret = 32768)
        /\ (last.args[1] = V_Neg10 => last.err = NoErr /\ last.ret = 0)
        /\ (last.args[1] = V_10 => last.err = RangeErr)
        /\ (last.args[1] = V_Top => last.err = NoErr /\ last.ret = 65535)

\* voltage_to_mu(10.0) has raised the range error
C4_Witness ==
    /\ last.op = "voltage_to_mu"
    /\ last.args[1] = V_10
    /\ last.err = RangeErr

\* C5: whenever voltage_to_mu returns, it returns round(3276.8 * voltage) +
\* 32768 and that value is in [0, 65535]; a voltage whose exact code is out
\* of range never comes back as an in-range value (clamped or wrapped).
C5_NeverWrapped ==
    (last.op = "voltage_to_mu" /\ last.err = NoErr) =>
        /\ ExactMu(last.args[1]).hi = 0
        /\ last.ret = ExactMu(last.args[1]).lo

----------------------------------------------------------------------------
(* Properties of the group writes, under SpecGroup *)

AlignErr == "ValueError: Group index LSBs must be zero"

InRangeVolts(voltage) == \A i \in 1..Len(voltage) : ExactMu(voltage[i]).hi = 0

\* the machine units of sample i of the group, 0 when none was supplied
SampleMu(voltage, i) == IF i <= Len(voltage) THEN ExactMu(voltage[i]).lo ELSE 0

\* C3: with width >= 2 and an aligned first channel, set_group of n in-range
\* voltages, 1 <= n <= width, issues one wide write to (channel << 8) | dac
\* of width/2 words, word j packing samples 2j and 2j+1 (counted from 0),
\* the samples not supplied being 0.
C3_SetGroupZeroFilled ==
    ( /\ last.op = "set_group"
      /\ width >= 2
      /\ last.args[1] \in 0..31
      /\ last.args[1] % width = 0
      /\ Len(last.args[2]) \in 1..width
      /\ InRangeVolts(last.args[2]) ) =>
        /\ last.err = NoErr
        /\ Len(CallWrites) = 1
        /\ CallWrites[1].kind = "rtio_output_wide"
        /\ CallWrites[1].addr = channel + last.args[1]
        /\ Len(CallWrites[1].data) = width \div 2
        /\ \A j \in 1..(width \div 2) :
               CallWrites[1].data[j] =
                   FromHalves(SampleMu(last.args[2], 2 * j),
                              SampleMu(last.args[2], 2 * j - 1))

\* C7: for a first channel c in [0, 31] a group write (set_group_mu, and
\* set_group of in-range voltages) fails with the alignment error exactly
\* when c mod width # 0, has written nothing when it does, and never fails
\* when width = 1.
C7_AlignmentExact ==
    ( /\ last.op \in {"set_group_mu", "set_group"}
      /\ last.args[1] \in 0..31
      /\ (last.op = "set_group" => InRangeVolts(last.args[2])) ) =>
        /\ (last.err = AlignErr) <=> (last.args[1] % width # 0)
        /\ (last.err = AlignErr => CallWrites = <<>>)
        /\ (width = 1 => last.err = NoErr)

----------------------------------------------------------------------------
(* Properties of the driver, under Spec *)

\* the methods C6 names
FallibleOps == {"set_dac", "set_group", "set_group_mu", "stage_cic", "stage_cic_mu", "read"}

\* the one output a call of op with arguments args is to issue
IntendedKind(op) ==
    IF op \in {"set_group", "set_group_mu"} THEN "rtio_output_wide" ELSE "rtio_output"

IntendedAddr(op, args) ==
    IF op \in {"stage_cic", "stage_cic_mu"} THEN channel + 38 ELSE Or32(channel, args[1])

InitTrace(t0) ==
    << [kind |-> "rtio_output", addr |-> channel + 34, data |-> <<8>>, t |-> t0],
       [kind |-> "rtio_output", addr |-> channel + 34, data |-> <<0>>, t |-> t0 + 392],
       [kind |-> "rtio_output", addr |-> channel + 37, data |-> <<0>>, t |-> t0 + 2 * 392],
       [kind |-> "rtio_output", addr |-> channel + 38, data |-> <<0>>, t |-> t0 + 3 * 392],
       [kind |-> "rtio_output", addr |-> channel + 39, data |-> <<-1>>, t |-> t0 + 4 * 392],
       [kind |-> "rtio_output", addr |-> channel + 35, data |-> <<0>>, t |-> t0 + 5 * 392],
       [kind |-> "rtio_output", addr |-> channel + 33, data |-> <<0>>, t |-> t0 + 6 * 392] >>

\* C8: init issues exactly seven narrow outputs: cfg = clr_err only, cfg = 0,
\* continuous = 0, staged CIC = 0, apply-CIC = all 32 channels (the int32 -1),
\* LEDs = 0, hold = 0, each 392 mu after the one before; none is at a DAC
\* data offset and none sets the reset bit.
C8_InitTrace ==
    last.op = "init" =>
        /\ last.err = NoErr
        /\ CallWrites = InitTrace(now - 7 * 392)
        /\ \A i \in 1..Len(CallWrites) :
               /\ And32(CallWrites[i].addr, 255) \notin 0..31
               /\ (And32(CallWrites[i].addr, 255) = 34 =>
                       And32(CallWrites[i].data[1], 1) = 0)

\* init has run after a delay_mu, on a cursor that was not 0
C8_Witness ==
    /\ last.op = "init"
    /\ now = 8 * 392
    /\ Len(CallWrites) = 7
    /\ CallWrites[1].t = 392

DataOps == {"set_dac", "set_dac_mu", "set_group", "set_group_mu"}

\* C10 as stated: every output of set_dac, set_dac_mu, set_group and
\* set_group_mu is at a register offset in 0x00-0x1F with the RTIO channel
\* bits of the construction, and a channel argument outside [0, 31] is
\* rejected before any output.
C10_DataWritesStayInDacRange ==
    last.op \in DataOps =>
        /\ \A i \in 1..Len(CallWrites) :
               /\ And32(CallWrites[i].addr, 255) \in 0..31
               /\ CallWrites[i].addr - And32(CallWrites[i].addr, 255) = channel
        /\ (last.args[1] \notin 0..31 => last.err # NoErr /\ CallWrites = <<>>)

\* C10 amended: with a channel argument in [0, 31] every output of the four
\* methods is at the register offset equal to that argument, with the RTIO
\* channel bits of the construction; a channel argument outside [0, 31] is
\* not range-checked: set_dac_mu returns for every argument, its output at
\* (channel << 8) | dac.
C10_DataWritesOfValidChannels ==
    last.op \in DataOps =>
        /\ (last.args[1] \in 0..31 =>
               \A i \in 1..Len(CallWrites) :
                   /\ And32(CallWrites[i].addr, 255) = last.args[1]
                   /\ CallWrites[i].addr - last.args[1] = channel)
        /\ (last.op = "set_dac_mu" =>
               /\ last.err = NoErr
               /\ Len(CallWrites) = 1
               /\ CallWrites[1].addr = Or32(channel, last.args[1]))

\* set_dac(1, 1.0) has written the code of 1 V to offset 1
C10_Witness ==
    /\ last.op = "set_dac"
    /\ last.args = <<1, V_1>>
    /\ last.err = NoErr
    /\ CallWrites = <<[kind |-> "rtio_output", addr |-> channel + 1,
                       data |-> <<36045>>, t |-> now]>>

=============================================================================
